---- MODULE Spec2Model ----
(***************************************************************************)
(* SearchOps (src/app.py): a Streamlit job-search tracker over SQLite.     *)
(*                                                                         *)
(* Every user interaction re-runs main() top to bottom: init_db, the       *)
(* sidebar (week selection, settings), then the five tabs in order         *)
(* (Log Activity, Targets, Dashboard, Networking, Export / Import).  One   *)
(* action of this model is one such pass with one widget interaction.      *)
(*                                                                         *)
(* Representation of values                                                *)
(*   date objects      proleptic Gregorian ordinals (date.toordinal())     *)
(*   ISO date text     <<year, month, day>>; the zero-padded text          *)
(*                     compares lexicographically as the tuple does        *)
(*   hours             exact decimals, counted in thousandths of an hour   *)
(*   hour targets      counted in 1/100000 of an hour (100 per             *)
(*                     thousandth), so that 70%, 20%, 10% are exact        *)
(*   SQL NULL / text   notes is a record [t, v], t being "null" or "text"  *)
(***************************************************************************)
EXTENDS Integers, Sequences, FiniteSets, TLC

VARIABLES
    settings,           \* table settings: set of rows
    targets,            \* table targets: set of rows
    activity_log,       \* table activity_log: set of rows
    networking_contacts,       \* table networking_contacts: set of rows
    networking_interactions,   \* table networking_interactions: set of rows
    networking_scripts,        \* table networking_scripts: set of rows
    sqlite_sequence,    \* AUTOINCREMENT high-water mark of each table
    selected_day,       \* sidebar date_input "Pick a day (week view)"
    uploaded,           \* the file held by the st.file_uploader widget
    view,               \* what the last pass of main() rendered
    last_call,          \* the repository call made by the last pass
    wb_d,               \* argument of a direct call of week_bounds
    wb_out              \* its outcome

vars == <<settings, targets, activity_log, networking_contacts,
          networking_interactions, networking_scripts, sqlite_sequence,
          selected_day, uploaded, view, last_call, wb_d, wb_out>>

store == <<settings, targets, activity_log, networking_contacts,
           networking_interactions, networking_scripts, sqlite_sequence>>

(***************************************************************************)
(* Bounds of the model                                                     *)
(***************************************************************************)
MaxTargets == 2         \* rows in targets
MaxContacts == 2        \* rows in networking_contacts
MaxInteractions == 2    \* rows in networking_interactions
MaxRows == 3            \* rows ever inserted, all tables together (SpecApp)
MaxListRows == 4        \* rows ever inserted, all tables together (SpecLists)
MaxActivityId == 3      \* highest id the AUTOINCREMENT of activity_log hands out
WBSpan == 20            \* days in each window of dates tried on week_bounds

(***************************************************************************)
(* datetime.date: ordinals, weekday, date +/- timedelta, isoformat         *)
(***************************************************************************)
MAXORDINAL == 3652059   \* date.max = 9999-12-31

IsLeap(y) == y % 4 = 0 /\ (y % 100 # 0 \/ y % 400 = 0)

DaysInMonth(y, m) ==
    IF m = 2 THEN (IF IsLeap(y) THEN 29 ELSE 28)
    ELSE IF m \in {4, 6, 9, 11} THEN 30 ELSE 31

DaysBeforeYear(y) ==
    LET p == y - 1 IN p * 365 + (p \div 4) - (p \div 100) + (p \div 400)

RECURSIVE DaysBeforeMonth(_, _)
DaysBeforeMonth(y, m) ==
    IF m = 1 THEN 0 ELSE DaysBeforeMonth(y, m - 1) + DaysInMonth(y, m - 1)

\* date(y, m, d).toordinal(); also what parsing an ISO date text yields
ToOrdinal(iso) == DaysBeforeYear(iso[1]) + DaysBeforeMonth(iso[1], iso[2]) + iso[3]

\* date.fromordinal(n) read as year, month, day: the text of isoformat()
isoformat(n) ==
    LET n0   == n - 1
        n400 == n0 \div 146097
        r400 == n0 % 146097
        n100 == r400 \div 36524
        r100 == r400 % 36524
        n4   == r100 \div 1461
        r4   == r100 % 1461
        n1   == r4 \div 365
        r1   == r4 % 365
        year == n400 * 400 + 1 + n100 * 100 + n4 * 4 + n1
    IN  IF n1 = 4 \/ n100 = 4
        THEN <<year - 1, 12, 31>>
        ELSE LET m0   == (r1 + 50) \div 32
                 pre0 == DaysBeforeMonth(year, m0)
                 month == IF pre0 > r1 THEN m0 - 1 ELSE m0
                 pre   == DaysBeforeMonth(year, month)
             IN <<year, month, r1 - pre + 1>>

\* A date text is <<y, m, d>> for "YYYY-MM-DD", and <<y, m, d, 1>> for
\* "YYYY-MM-D", the day d in 1..9 written with one digit.  The place of the day
\* part among the day parts, bytewise: "3" is above "29" and below "30".
DayKey(t) == IF Len(t) = 3 THEN 2 * t[3] ELSE 20 * t[3] - 1

\* comparison of two date texts as SQLite compares TEXT (bytewise)
IsoLeq(a, b) ==
    \/ a[1] < b[1]
    \/ a[1] = b[1] /\ a[2] < b[2]
    \/ a[1] = b[1] /\ a[2] = b[2] /\ DayKey(a) <= DayKey(b)

\* date.weekday(): Monday is 0
weekday(d) == (d + 6) % 7

\* date + timedelta(days): OverflowError outside date.min .. date.max
DateInRange(o) == o >= 1 /\ o <= MAXORDINAL

(***************************************************************************)
(* week_bounds                                                             *)
(***************************************************************************)
week_bounds_end_plus_5(d) ==
    LET start == d - weekday(d)
    IN  IF ~DateInRange(start) THEN [raised |-> "OverflowError", start |-> 0, end |-> 0]
        ELSE IF ~DateInRange(start + 5) THEN [raised |-> "OverflowError", start |-> 0, end |-> 0]
        ELSE [raised |-> "", start |-> start, end |-> start + 5]

week_bounds(d) ==
    LET start == d - weekday(d)
    IN  IF ~DateInRange(start) THEN [raised |-> "OverflowError", start |-> 0, end |-> 0]
        ELSE IF ~DateInRange(start + 6) THEN [raised |-> "OverflowError", start |-> 0, end |-> 0]
        ELSE [raised |-> "", start |-> start, end |-> start + 6]

(***************************************************************************)
(* Schema: defaults, enumerations of the input widgets, seed rows          *)
(***************************************************************************)
DefaultWeeklyHours == 30        \* settings.weekly_hours DEFAULT / first row
DefaultActionsPerDay == 5       \* settings.target_actions_per_day DEFAULT
ActiveTargetGoal == 7           \* "goal of 7" active targets

\* hours typed in hours, held in thousandths
Hours(h) == h * 1000

Categories == <<"Networking", "Planning", "Applying">>
Channels == <<"Network", "Online Postings", "New Connections", "Search Firms">>
Stages == <<"Prospecting", "Applied", "Screen", "Interview", "Offer", "Closed">>

Range(seq) == {seq[i] : i \in DOMAIN seq}

\* the nine integer counters of activity_log, in column order
CounterCols == <<"jobs_applied", "followup_calls", "outreach_msgs",
                 "new_linkedin_contacts", "staffing_firms", "networking_meetings",
                 "networking_events", "phone_screens", "onsite_interviews">>

\* SELECT * FROM activity_log: the columns in table order
ActivityColumns == <<"id", "activity_date", "title", "category", "channel", "hours">>
                   \o CounterCols \o <<"notes">>

\* SQL NULL and TEXT in a nullable TEXT column
Null == [t |-> "null", v |-> ""]
Text(s) == [t |-> "text", v |-> s]

ScriptSeeds == <<"Intro + 20-min ask", "Referral ask", "Event follow-up ask",
                 "Connection request (300 chars)", "Thank you + recap">>

(***************************************************************************)
(* init_db, settings                                                       *)
(***************************************************************************)
init_db_settings_replace(tbl) ==
    {r \in tbl : r.id # 1}
    \cup {[id |-> 1, weekly_hours |-> Hours(DefaultWeeklyHours),
           target_actions_per_day |-> DefaultActionsPerDay]}

\* INSERT OR IGNORE INTO settings (id, weekly_hours, target_actions_per_day)
init_db_settings(tbl) ==
    IF \E r \in tbl : r.id = 1 THEN tbl
    ELSE tbl \cup {[id |-> 1, weekly_hours |-> Hours(DefaultWeeklyHours),
                    target_actions_per_day |-> DefaultActionsPerDay]}

\* seed_networking_scripts: SELECT COUNT(1); return when > 0; else executemany
\* of the five INSERTs and one commit
seed_networking_scripts_when_fewer(tbl) ==
    IF Cardinality(tbl) >= Len(ScriptSeeds) THEN tbl
    ELSE tbl \cup {[id |-> i, title |-> ScriptSeeds[i], is_default |-> 1] : i \in DOMAIN ScriptSeeds}

seed_networking_scripts(tbl) ==
    IF Cardinality(tbl) > 0 THEN tbl
    ELSE {[id |-> i, title |-> ScriptSeeds[i], is_default |-> 1] : i \in DOMAIN ScriptSeeds}

load_settings(tbl) ==
    LET row == CHOOSE r \in tbl : r.id = 1
    IN  [weekly_hours |-> row.weekly_hours,
         target_actions_per_day |-> row.target_actions_per_day]

save_settings(tbl, weekly_hours, target_actions_per_day) ==
    {IF r.id = 1
     THEN [r EXCEPT !.weekly_hours = weekly_hours,
                    !.target_actions_per_day = target_actions_per_day]
     ELSE r : r \in tbl}

\* weekly_hours * 0.70, * 0.20, * 0.10, in 1/100 of a thousandth of an hour
hour_targets_two_planning(weekly_hours) ==
    [Networking |-> weekly_hours * 70,
     Planning   |-> weekly_hours * 20,
     Applying   |-> weekly_hours * 20]

hour_targets(weekly_hours) ==
    [Networking |-> weekly_hours * 70,
     Planning   |-> weekly_hours * 20,
     Applying   |-> weekly_hours * 10]

(***************************************************************************)
(* Repository functions: each returns the table after the statement        *)
(***************************************************************************)
\* INSERT INTO targets ...: the id is the AUTOINCREMENT successor
\* INSERT INTO targets (...); created_at is datetime.now() to the second,
\* here the number of the second
add_target(tbl, seq, name, company, role, stage, notes, is_active, now) ==
    tbl \cup {[id |-> seq + 1, name |-> name, company |-> company, role |-> role,
               stage |-> stage, notes |-> notes,
               is_active |-> IF is_active THEN 1 ELSE 0, created_at |-> now]}

update_target_every_row(tbl, target_id, stage, is_active, notes) ==
    {[r EXCEPT !.stage = stage, !.is_active = IF is_active THEN 1 ELSE 0,
               !.notes = notes] : r \in tbl}

update_target_notes_as_stage(tbl, target_id, stage, is_active, notes) ==
    {IF r.id = target_id
     THEN [r EXCEPT !.stage = notes, !.is_active = IF is_active THEN 1 ELSE 0,
                    !.notes = stage]
     ELSE r : r \in tbl}

\* UPDATE targets SET stage = ?, is_active = ?, notes = ? WHERE id = ?
update_target(tbl, target_id, stage, is_active, notes) ==
    {IF r.id = target_id
     THEN [r EXCEPT !.stage = stage, !.is_active = IF is_active THEN 1 ELSE 0,
                    !.notes = notes]
     ELSE r : r \in tbl}

\* ORDER BY is_active DESC, created_at DESC; rows equal in both come in
\* rowid order
RECURSIVE get_targets_df(_)
get_targets_df(tbl) ==
    IF tbl = {} THEN <<>>
    ELSE LET Before(r, q) ==
                 \/ r.is_active > q.is_active
                 \/ r.is_active = q.is_active /\ r.created_at > q.created_at
                 \/ r.is_active = q.is_active /\ r.created_at = q.created_at /\ r.id <= q.id
             first == CHOOSE r \in tbl : \A q \in tbl : Before(r, q)
         IN <<first>> \o get_targets_df(tbl \ {first})

delete_activity_up_to(tbl, activity_id) == {r \in tbl : r.id > activity_id}

\* DELETE FROM activity_log WHERE id = ?
delete_activity(tbl, activity_id) == {r \in tbl : r.id # activity_id}

\* ORDER BY activity_date DESC, id DESC of a set of rows
RECURSIVE OrderByDateIdDesc(_)
OrderByDateIdDesc(rows) ==
    IF rows = {} THEN <<>>
    ELSE LET first == CHOOSE r \in rows : \A q \in rows :
                          \/ r.activity_date # q.activity_date
                             /\ IsoLeq(q.activity_date, r.activity_date)
                          \/ r.activity_date = q.activity_date /\ r.id >= q.id
         IN <<first>> \o OrderByDateIdDesc(rows \ {first})

\* WHERE activity_date >= start.isoformat() AND activity_date <= end.isoformat()
get_activity_df(tbl, start, end) ==
    OrderByDateIdDesc({r \in tbl : /\ IsoLeq(isoformat(start), r.activity_date)
                                   /\ IsoLeq(r.activity_date, isoformat(end))})

(***************************************************************************)
(* pandas: the Series and DataFrame operations the dashboard uses.         *)
(* A DataFrame is the sequence of its rows; a Series is a function from    *)
(* its index to cells [nan, v], nan marking a missing value.               *)
(***************************************************************************)
NaN == [nan |-> TRUE, v |-> 0]
Num(x) == [nan |-> FALSE, v |-> x]

RECURSIVE SumCol(_, _)
SumCol(df, col) ==
    IF df = <<>> THEN 0 ELSE Head(df)[col] + SumCol(Tail(df), col)

RowsWhere(df, key, k) == LET Test(r) == r[key] = k IN SelectSeq(df, Test)

\* df.groupby(key)[col].sum(): indexed by the keys that occur
groupby_sum(df, key, col) ==
    [k \in {df[i][key] : i \in DOMAIN df} |-> Num(SumCol(RowsWhere(df, key, k), col))]

\* series.reindex(index): NaN where the series has no such label
reindex(series, index) ==
    [k \in Range(index) |-> IF k \in DOMAIN series THEN series[k] ELSE NaN]

fillna_skipped(series, x) == series

\* series.fillna(x)
fillna(series, x) ==
    [k \in DOMAIN series |-> IF series[k].nan THEN Num(x) ELSE series[k]]

\* series.sum(): missing values are skipped
RECURSIVE SumLabels(_, _)
SumLabels(series, labels) ==
    IF labels = {} THEN 0
    ELSE LET k == CHOOSE x \in labels : TRUE
         IN (IF series[k].nan THEN 0 ELSE series[k].v) + SumLabels(series, labels \ {k})

series_sum(series) == SumLabels(series, DOMAIN series)

\* safe_sum: the columns are NOT NULL, so fillna(0) finds nothing to fill
safe_sum(df, col) ==
    IF Len(df) = 0 \/ col \notin Range(ActivityColumns) THEN 0
    ELSE SumCol(df, col)

\* round(x, 2) of a float that is an exact multiple of 1/8: half to even
round2(x) ==
    LET q == x \div 10
        r == x % 10
    IN  IF r < 5 THEN q * 10
        ELSE IF r > 5 THEN (q + 1) * 10
        ELSE IF q % 2 = 0 THEN q * 10 ELSE (q + 1) * 10

\* pd.to_datetime(df["activity_date"]).dt.date, then groupby(...)["id"].count()
actions_by_day(df) ==
    [d \in {ToOrdinal(df[i].activity_date) : i \in DOMAIN df} |->
        Cardinality({i \in DOMAIN df : ToOrdinal(df[i].activity_date) = d})]

days_meeting_strictly_more(by_day, target_actions_per_day) ==
    Cardinality({d \in DOMAIN by_day : by_day[d] > target_actions_per_day})

\* int((actions_by_day >= target_actions_per_day).sum())
days_meeting(by_day, target_actions_per_day) ==
    Cardinality({d \in DOMAIN by_day : by_day[d] >= target_actions_per_day})

\* int((df_targets["is_active"] == 1).sum()) if not df_targets.empty else 0
count_active(df_targets) ==
    IF Len(df_targets) = 0 THEN 0
    ELSE Cardinality({i \in DOMAIN df_targets : df_targets[i].is_active = 1})

(***************************************************************************)
(* Dashboard tab: what it shows for the week's rows df_week                *)
(***************************************************************************)
hours_by_category(df_week) ==
    fillna(reindex(groupby_sum(df_week, "category", "hours"), Categories), 0)

scoreboard(df_week, total_hours) ==
    [c \in Range(CounterCols) \cup {"hours"} |->
        IF c = "hours" THEN round2(total_hours) ELSE safe_sum(df_week, c)]

Dashboard(df_week, df_targets, target_actions_per_day) ==
    IF Len(df_week) = 0
    THEN [shown |-> FALSE, df_week |-> df_week]
    ELSE LET hours_by_cat == hours_by_category(df_week)
             total_hours == series_sum(hours_by_cat)
             by_day == actions_by_day(df_week)
             active_targets == count_active(df_targets)
         IN [shown |-> TRUE,
             df_week |-> df_week,
             hours_by_cat |-> hours_by_cat,
             total_hours |-> total_hours,
             days_with_actions |-> Cardinality({d \in DOMAIN by_day : by_day[d] > 0}),
             days_meeting_5 |-> days_meeting(by_day, target_actions_per_day),
             active_targets |-> active_targets,
             active_delta |-> active_targets - ActiveTargetGoal,
             kpis |-> scoreboard(df_week, total_hours)]

\* Targets tab: the metric is shown when there is at least one target
TargetsTab(df_targets) ==
    IF Len(df_targets) = 0
    THEN [shown |-> FALSE]
    ELSE [shown |-> TRUE,
          active_count |-> Cardinality({i \in DOMAIN df_targets : df_targets[i].is_active = 1}),
          delta |-> Cardinality({i \in DOMAIN df_targets : df_targets[i].is_active = 1})
                    - ActiveTargetGoal]

(***************************************************************************)
(* Python values, as sqlite3 binds them and as pandas reads them:          *)
(* [k, v] with k one of "str" (v a text), "iso" (a str holding an ISO      *)
(* date, v = <<y, m, d>>), "int", "float" (v in thousandths), "nan".       *)
(***************************************************************************)
PyStr(s) == [k |-> "str", v |-> s]
PyIso(d) == [k |-> "iso", v |-> d]
PyInt(n) == [k |-> "int", v |-> n]
PyFloat(x) == [k |-> "float", v |-> x]
PyNaN == [k |-> "nan", v |-> 0]

\* decimal text of the small integers that occur as text in the model
Digits(n) == IF n \in 0..9
             THEN <<"0", "1", "2", "3", "4", "5", "6", "7", "8", "9">>[n + 1]
             ELSE "#"

\* text SQLite stores for a REAL bound to a TEXT column ("7.0")
FloatText(x) == IF x % 1000 = 0 THEN Digits(x \div 1000) \o ".0" ELSE "#.#"

(***************************************************************************)
(* SQLite: column affinity and NOT NULL of activity_log, applied to the    *)
(* values bound by INSERT INTO activity_log                                *)
(***************************************************************************)
TextCols == {"activity_date", "title", "category", "channel", "notes"}
NullableCols == {"notes"}

\* the value stored in column col for the bound value pv; SqlNull for NULL
SqlNull == [sql |-> "NULL"]
Stored(x) == [sql |-> "value", x |-> x]

bind(col, pv) ==
    IF pv.k = "nan" THEN SqlNull        \* sqlite3 binds a float NaN as NULL
    ELSE IF col = "activity_date" THEN Stored(pv.v)
    ELSE IF col \in TextCols
         THEN Stored(CASE pv.k = "str" -> pv.v
                       [] pv.k = "int" -> Digits(pv.v)
                       [] pv.k = "float" -> FloatText(pv.v))
    ELSE IF col = "hours"
         THEN Stored(IF pv.k = "int" THEN Hours(pv.v) ELSE pv.v)
    ELSE Stored(IF pv.k = "float" THEN pv.v \div 1000 ELSE pv.v)

\* INSERT INTO activity_log (cols) VALUES (?...); commit.  The result is the
\* table and sequence after the statement, and the exception it raised.
add_activity_max_rowid(tbl, seq, row) ==
    LET bound == [c \in DOMAIN row |-> bind(c, row[c])]
        rowid == IF tbl = {} THEN 1
                 ELSE 1 + (CHOOSE n \in {r.id : r \in tbl} : \A r \in tbl : r.id <= n)
    IN  IF \E c \in DOMAIN row : c \notin NullableCols /\ bound[c] = SqlNull
        THEN [tbl |-> tbl, seq |-> seq, raised |-> "IntegrityError"]
        ELSE [tbl |-> tbl \cup
                  {[c \in Range(ActivityColumns) |->
                       IF c = "id" THEN rowid
                       ELSE IF c = "notes"
                            THEN (IF bound[c] = SqlNull THEN Null ELSE Text(bound[c].x))
                            ELSE bound[c].x]},
              seq |-> seq + 1, raised |-> ""]

add_activity_rowcount_id(tbl, seq, row) ==
    LET bound == [c \in DOMAIN row |-> bind(c, row[c])]
        newid == Cardinality(tbl) + 1
    IN  IF \E c \in DOMAIN row : c \notin NullableCols /\ bound[c] = SqlNull
        THEN [tbl |-> tbl, seq |-> seq, raised |-> "IntegrityError"]
        ELSE [tbl |-> tbl \cup
                  {[c \in Range(ActivityColumns) |->
                       IF c = "id" THEN newid
                       ELSE IF c = "notes"
                            THEN (IF bound[c] = SqlNull THEN Null ELSE Text(bound[c].x))
                            ELSE bound[c].x]},
              seq |-> newid, raised |-> ""]

add_activity(tbl, seq, row) ==
    LET bound == [c \in DOMAIN row |-> bind(c, row[c])]
    IN  IF \E c \in DOMAIN row : c \notin NullableCols /\ bound[c] = SqlNull
        THEN [tbl |-> tbl, seq |-> seq, raised |-> "IntegrityError"]
        ELSE [tbl |-> tbl \cup
                  {[c \in Range(ActivityColumns) |->
                       IF c = "id" THEN seq + 1
                       ELSE IF c = "notes"
                            THEN (IF bound[c] = SqlNull THEN Null ELSE Text(bound[c].x))
                            ELSE bound[c].x]},
              seq |-> seq + 1, raised |-> ""]

(***************************************************************************)
(* CSV text.  A file is [header, rows]; a row maps each header column to   *)
(* a cell [k, v]: "empty", "text" (v a text), "date" (an ISO date text),   *)
(* "int" or "float" (a number literal, v its value; float in thousandths). *)
(***************************************************************************)
Empty == [k |-> "empty", v |-> 0]

\* DataFrame.to_csv(index=False) of the frame read_sql_query built
to_csv_cell(col, x) ==
    IF col = "activity_date" THEN [k |-> "date", v |-> x]
    ELSE IF col = "notes"
         THEN (IF x.t = "null" \/ x.v = "" THEN Empty ELSE [k |-> "text", v |-> x.v])
    ELSE IF col \in TextCols
         THEN (IF x = "" THEN Empty ELSE [k |-> "text", v |-> x])
    ELSE IF col = "hours" THEN [k |-> "float", v |-> x]
    ELSE [k |-> "int", v |-> x]

to_csv(df) ==
    [header |-> ActivityColumns,
     rows |-> [i \in DOMAIN df |->
                  [c \in Range(ActivityColumns) |-> to_csv_cell(c, df[i][c])]]]

\* pandas.read_csv defaults: the texts read as missing, and the texts of
\* the model's alphabet that parse as integers
NaTokens == {"", "NA", "N/A", "NULL", "NaN", "nan", "null", "None", "n/a", "<NA>", "#N/A"}
IntLiteral == [s \in {"007"} |-> 7]

IsNA(cell) == cell.k = "empty" \/ (cell.k = "text" /\ cell.v \in NaTokens)
IsIntLit(cell) == cell.k = "int" \/ (cell.k = "text" /\ cell.v \in DOMAIN IntLiteral)
IntOf(cell) == IF cell.k = "int" THEN cell.v ELSE IntLiteral[cell.v]
IsNumLit(cell) == cell.k = "float" \/ IsIntLit(cell)
FloatOf(cell) == IF cell.k = "float" THEN cell.v ELSE Hours(IntOf(cell))

\* dtype inference of one column over all rows of the file
column_dtype(file, col) ==
    IF \A i \in DOMAIN file.rows : IsIntLit(file.rows[i][col]) THEN "int64"
    ELSE IF \A i \in DOMAIN file.rows :
                IsNumLit(file.rows[i][col]) \/ IsNA(file.rows[i][col])
         THEN "float64"
    ELSE "object"

read_cell_keep_default_na_off(dtype, cell) ==
    IF dtype = "int64" THEN PyInt(IntOf(cell))
    ELSE IF dtype = "float64"
         THEN (IF IsNA(cell) THEN PyNaN ELSE PyFloat(FloatOf(cell)))
    ELSE CASE cell.k = "empty" -> PyStr("")
           [] cell.k = "text" -> PyStr(cell.v)
           [] cell.k = "date" -> PyIso(cell.v)
           [] cell.k = "int" -> PyStr(Digits(cell.v))
           [] cell.k = "float" -> PyStr(FloatText(cell.v))

\* one cell of a column of the inferred dtype; a missing cell is NaN
read_cell(dtype, cell) ==
    IF dtype = "int64" THEN PyInt(IntOf(cell))
    ELSE IF dtype = "float64"
         THEN (IF IsNA(cell) THEN PyNaN ELSE PyFloat(FloatOf(cell)))
    ELSE IF IsNA(cell) THEN PyNaN
    ELSE CASE cell.k = "text" -> PyStr(cell.v)
           [] cell.k = "date" -> PyIso(cell.v)
           [] cell.k = "int" -> PyStr(Digits(cell.v))
           [] cell.k = "float" -> PyStr(FloatText(cell.v))

\* pd.read_csv(uploaded): the frame's columns and rows
read_csv(file) ==
    [columns |-> file.header,
     rows |-> [i \in DOMAIN file.rows |->
                  [c \in Range(file.header) |->
                      read_cell(column_dtype(file, c), file.rows[i][c])]]]

(***************************************************************************)
(* Import tab                                                              *)
(***************************************************************************)
required_cols == Range(ActivityColumns) \ {"id"}

\* Python's order of the fifteen column names (str comparison)
RequiredSorted == <<"activity_date", "category", "channel", "followup_calls", "hours",
                    "jobs_applied", "networking_events", "networking_meetings",
                    "new_linkedin_contacts", "notes", "onsite_interviews",
                    "outreach_msgs", "phone_screens", "staffing_firms", "title">>

StrRank(c) == CHOOSE i \in DOMAIN RequiredSorted : RequiredSorted[i] = c

RECURSIVE sorted_descending(_)
sorted_descending(names) ==
    IF names = {} THEN <<>>
    ELSE LET hi == CHOOSE c \in names : \A o \in names : StrRank(o) <= StrRank(c)
         IN <<hi>> \o sorted_descending(names \ {hi})

\* sorted(missing)
RECURSIVE sorted(_)
sorted(names) ==
    IF names = {} THEN <<>>
    ELSE LET lo == CHOOSE c \in names : \A o \in names : StrRank(c) <= StrRank(o)
         IN <<lo>> \o sorted(names \ {lo})

missing_cols(df_in) == required_cols \ Range(df_in.columns)

\* for _, r in df_in.iterrows(): add_activity(conn, {k: r[k] for k in required_cols})
\* the loop ends at the first exception; every insert before it is committed
RECURSIVE import_rows(_, _, _)
import_rows(tbl, seq, rows) ==
    IF rows = <<>> THEN [tbl |-> tbl, seq |-> seq, raised |-> ""]
    ELSE LET r == Head(rows)
             res == add_activity(tbl, seq, [k \in required_cols |-> r[k]])
         IN  IF res.raised # "" THEN res
             ELSE import_rows(res.tbl, res.seq, Tail(rows))

(***************************************************************************)
(* One pass of main(): what it renders                                     *)
(***************************************************************************)
NoFile == [origin |-> "none"]

\* Import tab, before the button: the error or the preview
ImportMessage(file) ==
    IF file = NoFile THEN [kind |-> "none"]
    ELSE LET missing == missing_cols(read_csv(file.csv))
         IN  IF missing # {}
             THEN [kind |-> "missing", cols |-> sorted(missing)]
             ELSE [kind |-> "preview"]

\* the sidebar and the tabs, for the tables as the Dashboard tab reads them
Render(sett, tgts, log, day, file) ==
    LET wk == week_bounds(day)
        s == load_settings(sett)
        df_targets == get_targets_df(tgts)
    IN  [week |-> wk,
         hour_targets |-> hour_targets(s.weekly_hours),
         targets_tab |-> TargetsTab(df_targets),
         dash |-> Dashboard(get_activity_df(log, wk.start, wk.end), df_targets,
                            s.target_actions_per_day),
         import_msg |-> ImportMessage(file)]

strip_nothing(s) == s

\* str.strip() on the texts the model types into text inputs
strip(s) == CASE s = "  " -> ""
              [] s = " call " -> "call"
              [] s = " memo " -> "memo"
              [] s = " Acme " -> "Acme"
              [] OTHER -> s

(***************************************************************************)
(* Inputs                                                                  *)
(***************************************************************************)
Week1Monday == ToOrdinal(<<2024, 2, 26>>)

\* days picked in the sidebar: one in the week of the leap day, one in the next
SelDays == {Week1Monday + 2, Week1Monday + 8}

\* dates picked in the Log Activity form: Monday, the leap day, next Monday
ActivityDates == {Week1Monday, Week1Monday + 3, Week1Monday + 7}

NoCounts == [c \in Range(CounterCols) |-> 0]
SomeCounts == [NoCounts EXCEPT !["jobs_applied"] = 2, !["phone_screens"] = 1]
MoreCounts == [NoCounts EXCEPT !["jobs_applied"] = 1, !["outreach_msgs"] = 3,
                               !["onsite_interviews"] = 1]

Form(d, title, category, hours, counts, notes) ==
    [activity_date |-> d, title |-> title, category |-> category,
     channel |-> "Network", hours |-> hours, counts |-> counts, notes |-> notes]

\* Log Activity forms of the week-view specification: the dates vary
DashForms ==
    {Form(d, "call", "Networking", 500, SomeCounts, "") : d \in ActivityDates}
    \cup {Form(Week1Monday, "  ", "Planning", 250, NoCounts, "")}

\* Log Activity forms of the CSV specification: the titles, the notes and the
\* categories vary; three are of the week of the leap day, one of the next
CsvForms ==
    {Form(Week1Monday + 3, "call", "Networking", 500, NoCounts, ""),
     Form(Week1Monday + 3, "007", "Planning", 1125, SomeCounts, "memo"),
     Form(Week1Monday + 3, " call ", "Planning", 250, MoreCounts, " memo "),
     Form(Week1Monday + 7, "call", "Applying", 250, MoreCounts, "memo"),
     Form(Week1Monday + 7, "", "Applying", 250, NoCounts, "memo")}

\* the dict add_activity gets from the Log Activity form
FormRow(f) ==
    [c \in required_cols |->
        CASE c = "activity_date" -> PyIso(isoformat(f.activity_date))
          [] c = "title" -> PyStr(strip(f.title))
          [] c = "category" -> PyStr(f.category)
          [] c = "channel" -> PyStr(f.channel)
          [] c = "hours" -> PyFloat(f.hours)
          [] c = "notes" -> PyStr(strip(f.notes))
          [] OTHER -> PyInt(f.counts[c])]

\* hand-written CSV files offered to the uploader
FileRow(header, d, title, category, hours, counts, notes) ==
    [c \in Range(header) |->
        CASE c = "activity_date" -> [k |-> "date", v |-> d]
          [] c = "title" -> title
          [] c = "category" -> [k |-> "text", v |-> category]
          [] c = "channel" -> [k |-> "text", v |-> "Online Postings"]
          [] c = "hours" -> hours
          [] c = "notes" -> notes
          [] c = "source" -> [k |-> "text", v |-> "jobs board"]
          [] OTHER -> [k |-> "int", v |-> counts[c]]]

HeaderWithout(cols) == LET Keep(c) == c \notin cols IN SelectSeq(RequiredSorted, Keep)

CsvFile(header, rows) == [origin |-> "file", csv |-> [header |-> header, rows |-> rows], df |-> <<>>]

\* all fifteen columns and one more; one row of a category outside the three
OtherCategoryFile ==
    LET h == HeaderWithout({}) \o <<"source">>
    IN CsvFile(h, <<FileRow(h, <<2024, 2, 29>>, [k |-> "text", v |-> "fair"], "Other",
                            [k |-> "float", v |-> 2125], SomeCounts, [k |-> "text", v |-> "x"])>>)

MissingHoursFile ==
    LET h == HeaderWithout({"hours"})
    IN CsvFile(h, <<FileRow(h, <<2024, 2, 29>>, [k |-> "text", v |-> "fair"], "Planning",
                            Empty, NoCounts, Empty)>>)

MissingTwoFile ==
    LET h == <<"source">> \o HeaderWithout({"title", "category"})
    IN CsvFile(h, <<FileRow(h, <<2024, 2, 29>>, Empty, "", [k |-> "float", v |-> 500],
                            NoCounts, Empty)>>)

\* a row whose title is two spaces, then a row whose title cell is empty
BlankTitleFile ==
    LET h == HeaderWithout({})
    IN CsvFile(h, <<FileRow(h, <<2024, 2, 26>>, [k |-> "text", v |-> "  "], "Planning",
                            [k |-> "float", v |-> 1000], NoCounts, Empty),
                    FileRow(h, <<2024, 2, 26>>, Empty, "Planning",
                            [k |-> "float", v |-> 1000], NoCounts, Empty)>>)

\* two rows that both insert
TwoRowFile ==
    LET h == HeaderWithout({})
    IN CsvFile(h, <<FileRow(h, <<2024, 2, 26>>, [k |-> "text", v |-> "fair"], "Planning",
                            [k |-> "float", v |-> 1000], NoCounts, [k |-> "text", v |-> "x"]),
                    FileRow(h, <<2024, 2, 27>>, [k |-> "text", v |-> "fair"], "Applying",
                            [k |-> "float", v |-> 1000], NoCounts, [k |-> "text", v |-> "x"])>>)

\* a row whose date is written "2024-02-3"
UnpaddedDayFile ==
    LET h == HeaderWithout({})
    IN CsvFile(h, <<FileRow(h, <<2024, 2, 3, 1>>, [k |-> "text", v |-> "fair"], "Planning",
                            [k |-> "float", v |-> 1000], SomeCounts, Empty)>>)

CsvFiles == {OtherCategoryFile, MissingHoursFile, MissingTwoFile, BlankTitleFile}

(***************************************************************************)
(* State after the first run of main() on a fresh database                 *)
(***************************************************************************)
Pending == [raised |-> "pending", start |-> 0, end |-> 0]

InitApp ==
    /\ settings = init_db_settings({})
    /\ networking_scripts = seed_networking_scripts({})
    /\ targets = {}
    /\ activity_log = {}
    /\ networking_contacts = {}
    /\ networking_interactions = {}
    /\ sqlite_sequence = [targets |-> 0, activity_log |-> 0, networking_contacts |-> 0,
                          networking_interactions |-> 0]
    /\ selected_day \in SelDays
    /\ uploaded = NoFile
    /\ view = Render(settings, targets, activity_log, selected_day, uploaded)
    /\ last_call = [op |-> "none"]

Init ==
    /\ InitApp
    /\ wb_d = 1
    /\ wb_out = Pending

(***************************************************************************)
(* Passes of main(), one per widget interaction.  init_db runs first in    *)
(* every pass.  A mutation of the Log Activity and Targets tabs and of the *)
(* sidebar precedes the Dashboard tab of the same pass; an import follows  *)
(* it, so the pass of an import shows the dashboard of the rows before it. *)
(***************************************************************************)
InitDb(sett) ==
    /\ settings' = sett
    /\ networking_scripts' = seed_networking_scripts(networking_scripts)

Others == <<networking_contacts, networking_interactions, wb_d, wb_out>>

\* the sidebar date_input changes
SelectDay(d) ==
    /\ InitDb(init_db_settings(settings))
    /\ selected_day' = d
    /\ UNCHANGED <<targets, activity_log, sqlite_sequence, uploaded, Others>>
    /\ view' = Render(settings', targets, activity_log, d, uploaded)
    /\ last_call' = [op |-> "none"]

\* "Save settings"
SaveSettings(new_weekly_hours, new_actions_per_day) ==
    /\ InitDb(save_settings(init_db_settings(settings), new_weekly_hours, new_actions_per_day))
    /\ UNCHANGED <<targets, activity_log, sqlite_sequence, selected_day, uploaded, Others>>
    /\ view' = Render(settings', targets, activity_log, selected_day, uploaded)
    /\ last_call' = [op |-> "save_settings", weekly_hours |-> new_weekly_hours,
                     target_actions_per_day |-> new_actions_per_day]

\* "Add activity"
AddActivity(f) ==
    /\ sqlite_sequence.activity_log < MaxActivityId
    /\ InitDb(init_db_settings(settings))
    /\ IF strip(f.title) = ""
       THEN /\ UNCHANGED <<activity_log, sqlite_sequence>>
            /\ last_call' = [op |-> "refused", what |-> "add_activity", text |-> f.title]
       ELSE LET res == add_activity(activity_log, sqlite_sequence.activity_log, FormRow(f))
            IN /\ activity_log' = res.tbl
               /\ sqlite_sequence' = [sqlite_sequence EXCEPT !.activity_log = res.seq]
               /\ last_call' = [op |-> "add_activity", raised |-> res.raised,
                                text |-> f.title]
    /\ UNCHANGED <<targets, selected_day, uploaded, Others>>
    /\ view' = Render(settings', targets, activity_log', selected_day, uploaded)

\* "Delete selected activity": offered while the week's log is not empty; the
\* id is typed freely; st.rerun() then runs main() again from the top
DeleteActivity(delete_id) ==
    /\ LET wk == week_bounds(selected_day)
       IN Len(get_activity_df(activity_log, wk.start, wk.end)) > 0
    /\ InitDb(init_db_settings(settings))
    /\ activity_log' = delete_activity(activity_log, delete_id)
    /\ last_call' = [op |-> "delete_activity", id |-> delete_id, raised |-> "",
                     existed |-> \E r \in activity_log : r.id = delete_id]
    /\ UNCHANGED <<targets, sqlite_sequence, selected_day, uploaded, Others>>
    /\ view' = Render(settings', targets, activity_log', selected_day, uploaded)

\* "Add target"
AddTarget(t_name, t_company, t_role, t_stage, t_active, t_notes, now) ==
    /\ Cardinality(targets) < MaxTargets
    /\ InitDb(init_db_settings(settings))
    /\ IF strip(t_name) = ""
       THEN /\ UNCHANGED <<targets, sqlite_sequence>>
            /\ last_call' = [op |-> "refused", what |-> "add_target", text |-> t_name]
       ELSE /\ targets' = add_target(targets, sqlite_sequence.targets, strip(t_name),
                                     strip(t_company), strip(t_role), t_stage,
                                     strip(t_notes), t_active, now)
            /\ sqlite_sequence' = [sqlite_sequence EXCEPT !.targets = @ + 1]
            /\ last_call' = [op |-> "add_target", raised |-> "", text |-> t_name]
    /\ UNCHANGED <<activity_log, selected_day, uploaded, Others>>
    /\ view' = Render(settings', targets', activity_log, selected_day, uploaded)

\* "Save target update": the id comes from the select box of existing targets
UpdateTarget(chosen_id, new_stage, new_active, new_notes) ==
    /\ \E r \in targets : r.id = chosen_id
    /\ InitDb(init_db_settings(settings))
    /\ targets' = update_target(targets, chosen_id, new_stage, new_active, strip(new_notes))
    /\ last_call' = [op |-> "update_target", id |-> chosen_id, raised |-> ""]
    /\ UNCHANGED <<activity_log, sqlite_sequence, selected_day, uploaded, Others>>
    /\ view' = Render(settings', targets', activity_log, selected_day, uploaded)

\* a file is put into the uploader
UploadFile(f) ==
    /\ InitDb(init_db_settings(settings))
    /\ uploaded' = f
    /\ UNCHANGED <<targets, activity_log, sqlite_sequence, selected_day, Others>>
    /\ view' = Render(settings', targets, activity_log, selected_day, f)
    /\ last_call' = [op |-> "none"]

\* "Download activities CSV" of the selected week, and that file is put into
\* the uploader (df: the frame it was written from)
UploadExport ==
    LET wk == week_bounds(selected_day)
        df_week == get_activity_df(activity_log, wk.start, wk.end)
    IN  /\ Len(df_week) > 0
        /\ UploadFile([origin |-> "export", csv |-> to_csv(df_week), df |-> df_week])

\* "Import (append)": offered when no required column is missing
ImportClick ==
    /\ uploaded # NoFile
    /\ LET df_in == read_csv(uploaded.csv)
           res == import_rows(activity_log, sqlite_sequence.activity_log, df_in.rows)
       IN  /\ missing_cols(df_in) = {}
           /\ sqlite_sequence.activity_log + Len(df_in.rows) <= MaxActivityId
           /\ InitDb(init_db_settings(settings))
           /\ activity_log' = res.tbl
           /\ sqlite_sequence' = [sqlite_sequence EXCEPT !.activity_log = res.seq]
           /\ last_call' = [op |-> "import", raised |-> res.raised,
                            seq_before |-> sqlite_sequence.activity_log]
           /\ UNCHANGED <<targets, selected_day, uploaded, Others>>
           /\ view' = [Render(settings', targets, activity_log, selected_day, uploaded)
                       EXCEPT !.import_msg =
                           IF res.raised = "" THEN [kind |-> "imported"]
                           ELSE [kind |-> "failed", error |-> res.raised]]

(***************************************************************************)
(* Specifications                                                          *)
(***************************************************************************)
WeeklyHoursInputs == {0, 12500}      \* 0.0 and 12.5 hours
ActionsPerDayInputs == {1, 2}        \* number_input min_value=1

\* the week view, the settings and the activity log
Next ==
    \/ \E d \in SelDays : SelectDay(d)
    \/ \E h \in WeeklyHoursInputs, n \in ActionsPerDayInputs : SaveSettings(h, n)
    \/ \E f \in DashForms : AddActivity(f)
    \/ \E id \in 1..(sqlite_sequence.activity_log + 1) : DeleteActivity(id)

Spec == Init /\ [][Next]_vars

\* Targets tab inputs: names typed, stages picked from the select box, notes
\* typed, and the second datetime.now() falls in
TargetNames == {"Acme", "  "}
StageInputs == {Stages[3], Stages[6]}
NotesInputs == {" memo "}
Clock == {1, 2}

\* the targets and the dashboard
NextTargets ==
    \/ \E d \in SelDays : SelectDay(d)
    \/ AddActivity(Form(Week1Monday, "call", "Networking", 500, NoCounts, ""))
    \/ \E id \in 1..(sqlite_sequence.activity_log + 1) : DeleteActivity(id)
    \/ \E n \in TargetNames, a \in BOOLEAN : AddTarget(n, "", "", Stages[1], a, "", 1)
    \/ \E id \in 1..sqlite_sequence.targets, a \in BOOLEAN :
          UpdateTarget(id, Stages[2], a, "")

SpecTargets == Init /\ [][NextTargets]_vars

\* the Targets tab alone: the fields of the target rows
NextTargetRows ==
    \/ \E n \in TargetNames, now \in Clock :
          AddTarget(n, " Acme ", "", Stages[1], TRUE, "", now)
    \/ \E id \in 1..sqlite_sequence.targets, st \in StageInputs, a \in BOOLEAN,
          n \in NotesInputs : UpdateTarget(id, st, a, n)

SpecTargetRows == Init /\ [][NextTargetRows]_vars

\* the activity log, its dashboard, its export and the import of files
NextCsv ==
    \/ \E d \in SelDays : SelectDay(d)
    \/ \E f \in CsvForms : AddActivity(f)
    \/ UploadExport
    \/ \E f \in CsvFiles : UploadFile(f)
    \/ ImportClick

SpecCsv == Init /\ [][NextCsv]_vars

\* the activity log written by every pass that writes it
NextIds ==
    \/ AddActivity(Form(Week1Monday, "call", "Networking", 500, NoCounts, ""))
    \/ \E id \in 1..(sqlite_sequence.activity_log + 1) : DeleteActivity(id)
    \/ UploadFile(TwoRowFile)
    \/ ImportClick

SpecIds == Init /\ [][NextIds]_vars

\* the week view over a log that holds typed and imported rows; the days
\* picked are of the weeks of 2024-01-29, 2024-02-26 and 2024-03-04
WeekDays == SelDays \cup {Week1Monday - 23}

NextWeek ==
    \/ \E d \in WeekDays : SelectDay(d)
    \/ \E d \in ActivityDates : AddActivity(Form(d, "call", "Networking", 500, SomeCounts, ""))
    \/ \E id \in 1..(sqlite_sequence.activity_log + 1) : DeleteActivity(id)
    \/ UploadFile(UnpaddedDayFile)
    \/ ImportClick

SpecWeek == Init /\ [][NextWeek]_vars

(***************************************************************************)
(* Networking tab: contacts and interactions                               *)
(***************************************************************************)
\* get_conn: PRAGMA foreign_keys = ON on every connection
foreign_keys_default == FALSE

foreign_keys == TRUE

\* INSERT INTO networking_contacts ...
add_contact(tbl, seq, row) ==
    tbl \cup {[id |-> seq + 1, name |-> row.name, status |-> row.status,
               created_at |-> row.created_at]}

update_contact_every_row(tbl, contact_id, row) ==
    {[r EXCEPT !.name = row.name, !.status = row.status] : r \in tbl}

\* UPDATE networking_contacts SET ... WHERE id = ?
update_contact(tbl, contact_id, row) ==
    {IF r.id = contact_id THEN [r EXCEPT !.name = row.name, !.status = row.status] ELSE r
     : r \in tbl}

ForeignKeyOk_unchecked(contacts, contact_id) == TRUE

\* FOREIGN KEY (contact_id) REFERENCES networking_contacts(id), when enforced
ForeignKeyOk(contacts, contact_id) ==
    ~foreign_keys \/ \E c \in contacts : c.id = contact_id

\* INSERT INTO networking_interactions ...
add_interaction(tbl, seq, contacts, row) ==
    IF ~ForeignKeyOk(contacts, row.contact_id)
    THEN [tbl |-> tbl, seq |-> seq, raised |-> "IntegrityError"]
    ELSE [tbl |-> tbl \cup {[id |-> seq + 1, contact_id |-> row.contact_id,
                             interaction_date |-> row.interaction_date,
                             follow_up_date |-> row.follow_up_date]},
          seq |-> seq + 1, raised |-> ""]

update_interaction_checked_without_row(tbl, interaction_id, contacts, row) ==
    IF ~ForeignKeyOk(contacts, row.contact_id)
    THEN [tbl |-> tbl, raised |-> "IntegrityError"]
    ELSE [tbl |-> {IF r.id = interaction_id
                   THEN [r EXCEPT !.contact_id = row.contact_id,
                                  !.interaction_date = row.interaction_date,
                                  !.follow_up_date = row.follow_up_date]
                   ELSE r : r \in tbl},
          raised |-> ""]

\* UPDATE networking_interactions SET ... WHERE id = ?: the foreign key is
\* checked for the rows the statement updates
update_interaction(tbl, interaction_id, contacts, row) ==
    IF (\E r \in tbl : r.id = interaction_id) /\ ~ForeignKeyOk(contacts, row.contact_id)
    THEN [tbl |-> tbl, raised |-> "IntegrityError"]
    ELSE [tbl |-> {IF r.id = interaction_id
                   THEN [r EXCEPT !.contact_id = row.contact_id,
                                  !.interaction_date = row.interaction_date,
                                  !.follow_up_date = row.follow_up_date]
                   ELSE r : r \in tbl},
          raised |-> ""]

\* ON DELETE CASCADE: what DELETE FROM networking_contacts WHERE id = ? does
\* to networking_interactions
on_delete_cascade(interactions, contact_id) ==
    IF foreign_keys THEN {i \in interactions : i.contact_id # contact_id}
    ELSE interactions

\* the texts of status, in the order of SQLite's BINARY collation
StatusOrder == <<"Active", "Closed", "Dormant", "New">>

StatusRank(st) == CHOOSE k \in DOMAIN StatusOrder : StatusOrder[k] = st

RECURSIVE get_contacts_df_created_asc(_)
get_contacts_df_created_asc(tbl) ==
    IF tbl = {} THEN <<>>
    ELSE LET Before(r, q) ==
                 \/ StatusRank(r.status) < StatusRank(q.status)
                 \/ r.status = q.status /\ r.created_at < q.created_at
                 \/ r.status = q.status /\ r.created_at = q.created_at /\ r.id <= q.id
             first == CHOOSE r \in tbl : \A q \in tbl : Before(r, q)
         IN <<first>> \o get_contacts_df_created_asc(tbl \ {first})

\* ORDER BY status ASC, created_at DESC; rows equal in both come in rowid order
RECURSIVE get_contacts_df(_)
get_contacts_df(tbl) ==
    IF tbl = {} THEN <<>>
    ELSE LET Before(r, q) ==
                 \/ StatusRank(r.status) < StatusRank(q.status)
                 \/ r.status = q.status /\ r.created_at > q.created_at
                 \/ r.status = q.status /\ r.created_at = q.created_at /\ r.id <= q.id
             first == CHOOSE r \in tbl : \A q \in tbl : Before(r, q)
         IN <<first>> \o get_contacts_df(tbl \ {first})

\* ORDER BY i.interaction_date DESC, i.id DESC of a set of joined rows
RECURSIVE OrderByInteractionDateIdDesc(_)
OrderByInteractionDateIdDesc(rows) ==
    IF rows = {} THEN <<>>
    ELSE LET first == CHOOSE r \in rows : \A q \in rows :
                          \/ r.interaction_date # q.interaction_date
                             /\ IsoLeq(q.interaction_date, r.interaction_date)
                          \/ r.interaction_date = q.interaction_date /\ r.id >= q.id
         IN <<first>> \o OrderByInteractionDateIdDesc(rows \ {first})

\* FROM networking_interactions i JOIN networking_contacts c ON c.id = i.contact_id
Joined(tbl, contacts) ==
    {[id |-> i.id, contact_id |-> i.contact_id, name |-> c.name,
      interaction_date |-> i.interaction_date, follow_up_date |-> i.follow_up_date]
     : <<i, c>> \in {p \in tbl \X contacts : p[1].contact_id = p[2].id}}

\* get_interactions_df(conn, start, end, contact_id): dates is <<>> when start
\* or end is None and <<start, end>> otherwise; who is <<>> when contact_id is
\* None and <<contact_id>> otherwise
get_interactions_df(tbl, contacts, dates, who) ==
    OrderByInteractionDateIdDesc(
        {r \in Joined(tbl, contacts) :
            /\ dates # <<>> => /\ IsoLeq(isoformat(dates[1]), r.interaction_date)
                               /\ IsoLeq(r.interaction_date, isoformat(dates[2]))
            /\ who # <<>> => r.contact_id = who[1]})

\* ORDER BY i.follow_up_date ASC, i.id DESC of a set of joined rows
RECURSIVE OrderByFollowUpAscIdDesc(_)
OrderByFollowUpAscIdDesc(rows) ==
    IF rows = {} THEN <<>>
    ELSE LET first == CHOOSE r \in rows : \A q \in rows :
                          \/ r.follow_up_date # q.follow_up_date
                             /\ IsoLeq(r.follow_up_date.v, q.follow_up_date.v)
                          \/ r.follow_up_date = q.follow_up_date /\ r.id >= q.id
         IN <<first>> \o OrderByFollowUpAscIdDesc(rows \ {first})

get_followups_df_before(tbl, contacts, on_or_before) ==
    OrderByFollowUpAscIdDesc(
        {r \in Joined(tbl, contacts) :
            /\ r.follow_up_date # Null
            /\ r.follow_up_date.v # isoformat(on_or_before)
            /\ IsoLeq(r.follow_up_date.v, isoformat(on_or_before))})

\* WHERE i.follow_up_date IS NOT NULL AND i.follow_up_date <= on_or_before.isoformat()
get_followups_df(tbl, contacts, on_or_before) ==
    OrderByFollowUpAscIdDesc(
        {r \in Joined(tbl, contacts) :
            /\ r.follow_up_date # Null
            /\ IsoLeq(r.follow_up_date.v, isoformat(on_or_before))})

ContactNames == {"Ann", "  "}
ContactStatuses == {"New", "Active"}
InteractionDates == {Week1Monday + 1}
FollowUps == {Null, Text(isoformat(Week1Monday + 8))}

\* "Add contact"; now is datetime.now() to the second
AddContact(nc_name, nc_status, now) ==
    /\ sqlite_sequence.networking_contacts < MaxContacts
    /\ InitDb(init_db_settings(settings))
    /\ IF strip(nc_name) = ""
       THEN /\ UNCHANGED <<networking_contacts, sqlite_sequence>>
            /\ last_call' = [op |-> "refused", what |-> "add_contact", text |-> nc_name]
       ELSE /\ networking_contacts' =
                   add_contact(networking_contacts, sqlite_sequence.networking_contacts,
                               [name |-> strip(nc_name), status |-> nc_status,
                                created_at |-> now])
            /\ sqlite_sequence' = [sqlite_sequence EXCEPT !.networking_contacts = @ + 1]
            /\ last_call' = [op |-> "add_contact", raised |-> "", text |-> nc_name]
    /\ UNCHANGED <<targets, activity_log, networking_interactions, selected_day, uploaded,
                   wb_d, wb_out>>
    /\ view' = Render(settings', targets, activity_log, selected_day, uploaded)

\* "Save contact update": the id comes from the select box of contacts
UpdateContact(chosen_contact, uc_name, uc_status) ==
    /\ \E c \in networking_contacts : c.id = chosen_contact
    /\ InitDb(init_db_settings(settings))
    /\ IF strip(uc_name) = ""
       THEN /\ UNCHANGED networking_contacts
            /\ last_call' = [op |-> "refused", what |-> "update_contact", text |-> uc_name]
       ELSE /\ networking_contacts' =
                   update_contact(networking_contacts, chosen_contact,
                                  [name |-> strip(uc_name), status |-> uc_status])
            /\ last_call' = [op |-> "update_contact", id |-> chosen_contact, raised |-> "",
                             text |-> uc_name]
    /\ UNCHANGED <<targets, activity_log, networking_interactions, sqlite_sequence,
                   selected_day, uploaded, wb_d, wb_out>>
    /\ view' = Render(settings', targets, activity_log, selected_day, uploaded)

\* "Add interaction": offered when there is a contact; the contact is picked
\* by its label, which contact_map resolves to the id of a contact
AddInteraction(contact_id, interaction_date, follow_up) ==
    /\ sqlite_sequence.networking_interactions < MaxInteractions
    /\ \E c \in networking_contacts : c.id = contact_id
    /\ InitDb(init_db_settings(settings))
    /\ LET res == add_interaction(networking_interactions,
                                  sqlite_sequence.networking_interactions,
                                  networking_contacts,
                                  [contact_id |-> contact_id,
                                   interaction_date |-> isoformat(interaction_date),
                                   follow_up_date |-> follow_up])
       IN /\ networking_interactions' = res.tbl
          /\ sqlite_sequence' = [sqlite_sequence EXCEPT !.networking_interactions = res.seq]
          /\ last_call' = [op |-> "add_interaction", raised |-> res.raised]
    /\ UNCHANGED <<targets, activity_log, networking_contacts, selected_day, uploaded,
                   wb_d, wb_out>>
    /\ view' = Render(settings', targets, activity_log, selected_day, uploaded)

\* "Save interaction update": the interaction and the contact are picked from
\* the select boxes of existing interactions and contacts
UpdateInteraction(chosen_interaction, contact_id, interaction_date, follow_up) ==
    /\ \E i \in networking_interactions : i.id = chosen_interaction
    /\ \E c \in networking_contacts : c.id = contact_id
    /\ InitDb(init_db_settings(settings))
    /\ LET res == update_interaction(networking_interactions, chosen_interaction,
                                     networking_contacts,
                                     [contact_id |-> contact_id,
                                      interaction_date |-> isoformat(interaction_date),
                                      follow_up_date |-> follow_up])
       IN /\ networking_interactions' = res.tbl
          /\ last_call' = [op |-> "update_interaction", id |-> chosen_interaction,
                           raised |-> res.raised]
    /\ UNCHANGED <<targets, activity_log, networking_contacts, sqlite_sequence,
                   selected_day, uploaded, wb_d, wb_out>>
    /\ view' = Render(settings', targets, activity_log, selected_day, uploaded)

\* DELETE FROM networking_contacts WHERE id = ? on a connection of get_conn:
\* no pass of main() issues it; the schema decides what it does
DeleteContact(contact_id) ==
    /\ networking_contacts' = {c \in networking_contacts : c.id # contact_id}
    /\ networking_interactions' = on_delete_cascade(networking_interactions, contact_id)
    /\ last_call' = [op |-> "delete_contact", id |-> contact_id, raised |-> "",
                     cascaded |-> \E i \in networking_interactions : i.contact_id = contact_id]
    /\ UNCHANGED <<settings, targets, activity_log, networking_scripts, sqlite_sequence,
                   selected_day, uploaded, view, wb_d, wb_out>>

\* the Networking tab
NextNet ==
    \/ \E n \in ContactNames, st \in ContactStatuses : AddContact(n, st, 1)
    \/ \E id \in 1..sqlite_sequence.networking_contacts, n \in ContactNames,
          st \in ContactStatuses : UpdateContact(id, n, st)
    \/ \E c \in 1..sqlite_sequence.networking_contacts, d \in InteractionDates,
          fu \in FollowUps : AddInteraction(c, d, fu)
    \/ \E i \in 1..sqlite_sequence.networking_interactions,
          c \in 1..sqlite_sequence.networking_contacts, d \in InteractionDates,
          fu \in FollowUps : UpdateInteraction(i, c, d, fu)

SpecNet == Init /\ [][NextNet]_vars

\* the Networking tab, and contacts deleted in the store
NextStore ==
    \/ NextNet
    \/ \E id \in 1..(sqlite_sequence.networking_contacts + 1) : DeleteContact(id)

SpecStore == Init /\ [][NextStore]_vars

\* the date_input "Show follow-ups due on or before" changes: the list shown
SelectCutoff(followup_cutoff) ==
    /\ InitDb(init_db_settings(settings))
    /\ UNCHANGED <<targets, activity_log, networking_contacts, networking_interactions,
                   sqlite_sequence, selected_day, uploaded, wb_d, wb_out>>
    /\ view' = Render(settings', targets, activity_log, selected_day, uploaded)
    /\ last_call' = [op |-> "followups", cutoff |-> followup_cutoff,
                     df |-> get_followups_df(networking_interactions, networking_contacts,
                                             followup_cutoff)]

\* follow-up dates picked, and "No follow-up needed" ticked; cutoffs picked
\* before, between, on and after them
FollowUpInputs == {Null, Text(isoformat(Week1Monday + 4)), Text(isoformat(Week1Monday + 8))}
Cutoffs == {Week1Monday + 3, Week1Monday + 4, Week1Monday + 5, Week1Monday + 8}

\* the Networking tab with its follow-ups, and contacts deleted in the store
NextFollowUps ==
    \/ AddContact("Ann", "New", 1)
    \/ \E c \in 1..sqlite_sequence.networking_contacts, fu \in FollowUpInputs :
          AddInteraction(c, Week1Monday + 1, fu)
    \/ \E i \in 1..sqlite_sequence.networking_interactions, fu \in FollowUpInputs :
          UpdateInteraction(i, 1, Week1Monday + 1, fu)
    \/ \E id \in 1..sqlite_sequence.networking_contacts : DeleteContact(id)
    \/ \E d \in Cutoffs : SelectCutoff(d)

SpecFollowUps == Init /\ [][NextFollowUps]_vars

(***************************************************************************)
(* The data layer called directly, with ids of rows that may not exist     *)
(***************************************************************************)
\* rows inserted so far, all tables together
Rows ==
    sqlite_sequence.targets + sqlite_sequence.activity_log
    + sqlite_sequence.networking_contacts + sqlite_sequence.networking_interactions

Frame == <<settings, networking_scripts, sqlite_sequence, activity_log, selected_day,
           uploaded, view, wb_d, wb_out>>

\* update_target(conn, target_id, stage, is_active, notes)
CallUpdateTarget(target_id, stage, is_active, notes) ==
    /\ targets' = update_target(targets, target_id, stage, is_active, notes)
    /\ last_call' = [op |-> "call_update_target", id |-> target_id, raised |-> "",
                     existed |-> \E r \in targets : r.id = target_id]
    /\ UNCHANGED <<Frame, networking_contacts, networking_interactions>>

\* update_contact(conn, contact_id, row)
CallUpdateContact(contact_id, name, status) ==
    /\ networking_contacts' =
           update_contact(networking_contacts, contact_id, [name |-> name, status |-> status])
    /\ last_call' = [op |-> "call_update_contact", id |-> contact_id, raised |-> "",
                     existed |-> \E r \in networking_contacts : r.id = contact_id]
    /\ UNCHANGED <<Frame, targets, networking_interactions>>

\* add_interaction(conn, row)
CallAddInteraction(contact_id, interaction_date) ==
    /\ sqlite_sequence.networking_interactions < MaxInteractions
    /\ LET res == add_interaction(networking_interactions,
                                  sqlite_sequence.networking_interactions,
                                  networking_contacts,
                                  [contact_id |-> contact_id,
                                   interaction_date |-> isoformat(interaction_date),
                                   follow_up_date |-> Null])
       IN /\ networking_interactions' = res.tbl
          /\ sqlite_sequence' = [sqlite_sequence EXCEPT !.networking_interactions = res.seq]
          /\ last_call' = [op |-> "call_add_interaction", raised |-> res.raised,
                           contact_existed |->
                               \E c \in networking_contacts : c.id = contact_id]
    /\ UNCHANGED <<settings, networking_scripts, activity_log, selected_day, uploaded, view,
                   wb_d, wb_out, targets, networking_contacts>>

\* update_interaction(conn, interaction_id, row)
CallUpdateInteraction(interaction_id, contact_id, interaction_date) ==
    /\ LET res == update_interaction(networking_interactions, interaction_id,
                                     networking_contacts,
                                     [contact_id |-> contact_id,
                                      interaction_date |-> isoformat(interaction_date),
                                      follow_up_date |-> Null])
       IN /\ networking_interactions' = res.tbl
          /\ last_call' = [op |-> "call_update_interaction", id |-> interaction_id,
                           raised |-> res.raised,
                           existed |->
                               \E i \in networking_interactions : i.id = interaction_id,
                           contact_existed |->
                               \E c \in networking_contacts : c.id = contact_id]
    /\ UNCHANGED <<Frame, targets, networking_contacts>>

\* the Targets and Networking tabs, contacts deleted in the store, and the
\* data layer called with any id
NextData ==
    \/ Rows < MaxRows /\ AddTarget("Acme", "", "", Stages[1], TRUE, "", 1)
    \/ Rows < MaxRows /\ AddContact("Ann", "New", 1)
    \/ Rows < MaxRows /\ \E c \in 1..sqlite_sequence.networking_contacts :
                            AddInteraction(c, Week1Monday + 1, Null)
    \/ \E id \in 1..sqlite_sequence.networking_contacts : DeleteContact(id)
    \/ \E id \in 1..(sqlite_sequence.targets + 1) :
          CallUpdateTarget(id, Stages[2], FALSE, "memo")
    \/ \E id \in 1..(sqlite_sequence.networking_contacts + 1) :
          CallUpdateContact(id, "Bob", "Active")
    \/ Rows < MaxRows /\ \E c \in 1..(sqlite_sequence.networking_contacts + 1) :
                            CallAddInteraction(c, Week1Monday + 2)
    \/ \E i \in 1..(sqlite_sequence.networking_interactions + 1),
          c \in 1..(sqlite_sequence.networking_contacts + 1) :
          CallUpdateInteraction(i, c, Week1Monday + 3)

SpecData == Init /\ [][NextData]_vars

\* the Targets and Networking tabs with the inputs the lists are ordered by:
\* rows are added active, New and at either second, then deactivated or
\* made Active; MaxListRows rows are added in all
ListDates == {Week1Monday + 1, Week1Monday + 8}

NextLists ==
    \/ Rows < MaxListRows /\ \E now \in Clock :
          AddTarget("Acme", "", "", Stages[1], TRUE, "", now)
    \/ \E id \in 1..sqlite_sequence.targets : UpdateTarget(id, Stages[1], FALSE, "")
    \/ Rows < MaxListRows /\ \E now \in Clock : AddContact("Ann", "New", now)
    \/ \E id \in 1..sqlite_sequence.networking_contacts : UpdateContact(id, "Ann", "Active")
    \/ Rows < MaxListRows /\ \E d \in ListDates : AddInteraction(1, d, Null)
    \/ \E i \in 1..sqlite_sequence.networking_interactions :
          UpdateInteraction(i, 1, Week1Monday + 8, Null)

SpecLists == Init /\ [][NextLists]_vars

(***************************************************************************)
(* Every pass of main() in one specification, with few inputs each         *)
(***************************************************************************)
AppForms ==
    {Form(Week1Monday, "call", "Networking", 500, SomeCounts, "memo"),
     Form(Week1Monday, "  ", "Networking", 500, SomeCounts, "memo"),
     Form(Week1Monday, "", "Networking", 500, SomeCounts, "memo")}

NextApp ==
    \/ \E d \in SelDays : SelectDay(d)
    \/ SaveSettings(12500, 2)
    \/ Rows < MaxRows /\ \E f \in AppForms : AddActivity(f)
    \/ \E id \in 1..(sqlite_sequence.activity_log + 1) : DeleteActivity(id)
    \/ Rows < MaxRows /\ \E n \in TargetNames \cup {""} :
                            AddTarget(n, " Acme ", "", Stages[1], TRUE, "", 1)
    \/ \E id \in 1..sqlite_sequence.targets : UpdateTarget(id, Stages[2], FALSE, " memo ")
    \/ Rows < MaxRows /\ \E n \in ContactNames \cup {""} : AddContact(n, "New", 1)
    \/ \E id \in 1..sqlite_sequence.networking_contacts, n \in {"Bob", "  ", ""} :
          UpdateContact(id, n, "Active")
    \/ Rows < MaxRows /\ \E c \in 1..sqlite_sequence.networking_contacts :
                            AddInteraction(c, Week1Monday + 1, Null)
    \/ \E i \in 1..sqlite_sequence.networking_interactions,
          c \in 1..sqlite_sequence.networking_contacts :
          UpdateInteraction(i, c, Week1Monday + 2, Text(isoformat(Week1Monday + 8)))
    \/ UploadExport
    \/ UploadFile(TwoRowFile)
    \/ uploaded # NoFile /\ Rows + Len(uploaded.csv.rows) <= MaxRows /\ ImportClick

SpecApp == Init /\ [][NextApp]_vars

(***************************************************************************)
(* init_db called on databases whose networking_scripts table holds any    *)
(* rows: none, some of the seeded ones, a row of its own                   *)
(***************************************************************************)
ScriptTables ==
    SUBSET (seed_networking_scripts({}) \cup {[id |-> 6, title |-> "Custom", is_default |-> 0]})

InitScripts ==
    /\ settings = init_db_settings({})
    /\ networking_scripts \in ScriptTables
    /\ targets = {}
    /\ activity_log = {}
    /\ networking_contacts = {}
    /\ networking_interactions = {}
    /\ sqlite_sequence = [targets |-> 0, activity_log |-> 0, networking_contacts |-> 0,
                          networking_interactions |-> 0]
    /\ selected_day \in SelDays
    /\ uploaded = NoFile
    /\ view = Render(settings, targets, activity_log, selected_day, uploaded)
    /\ last_call = [op |-> "none"]
    /\ wb_d = 1
    /\ wb_out = Pending

\* init_db(conn)
CallInitDb ==
    /\ InitDb(init_db_settings(settings))
    /\ last_call' = [op |-> "init_db", existing |-> Cardinality(networking_scripts)]
    /\ UNCHANGED <<targets, activity_log, networking_contacts, networking_interactions,
                   sqlite_sequence, selected_day, uploaded, view, wb_d, wb_out>>

SpecScripts == InitScripts /\ [][CallInitDb]_vars

(***************************************************************************)
(* week_bounds called directly, on dates at both ends of the range of      *)
(* datetime.date, around a leap day, a year's end and a century's February *)
(***************************************************************************)
Around(iso) == (ToOrdinal(iso) - WBSpan)..(ToOrdinal(iso) + WBSpan)

WBDates ==
    (1..WBSpan) \cup ((MAXORDINAL - WBSpan + 1)..MAXORDINAL)
    \cup Around(<<2024, 2, 29>>) \cup Around(<<2023, 12, 31>>) \cup Around(<<1900, 2, 28>>)

InitWeekBounds ==
    /\ InitApp
    /\ wb_d \in WBDates
    /\ wb_out = Pending

CallWeekBounds ==
    /\ wb_out = Pending
    /\ wb_out' = week_bounds(wb_d)
    /\ UNCHANGED <<store, selected_day, uploaded, view, last_call, wb_d>>

SpecWeekBounds == InitWeekBounds /\ [][CallWeekBounds]_vars

(***************************************************************************)
(* Properties                                                              *)
(***************************************************************************)
\* 0001-01-01, the date of ordinal 1, is a Monday
IsMonday(d) == (d - 1) % 7 = 0
IsSunday(d) == d % 7 = 0

WeekOf(out, d) ==
    /\ out.raised = ""
    /\ IsMonday(out.start)
    /\ IsSunday(out.end)
    /\ out.end = out.start + 6
    /\ out.start <= d
    /\ d <= out.end

\* C1 as stated: for every calendar date d, week_bounds(d) returns (start, end)
\* with start a Monday, end a Sunday, end = start + 6 days and start <= d <= end.
C1_EveryDate == wb_out # Pending => WeekOf(wb_out, wb_d)

\* C1 amended: week_bounds(d) returns the Monday-to-Sunday week of d for every
\* date d up to 9999-12-26; for the five dates 9999-12-27 .. 9999-12-31 the
\* Sunday of the week is past date.max and the call raises OverflowError.
C1_WeekBounds ==
    wb_out # Pending =>
        IF IsoLeq(isoformat(wb_d), <<9999, 12, 26>>)
        THEN WeekOf(wb_out, wb_d)
        ELSE wb_out.raised = "OverflowError"

\* the week of the leap day 2024-02-29 is 2024-02-26 .. 2024-03-03
C1_Witness ==
    /\ isoformat(wb_d) = <<2024, 2, 29>>
    /\ wb_out # Pending
    /\ isoformat(wb_out.start) = <<2024, 2, 26>>
    /\ isoformat(wb_out.end) = <<2024, 3, 3>>

(***************************************************************************)
(* Hour targets (sidebar)                                                  *)
(***************************************************************************)
\* the configured weekly hours, in the unit of the hour targets
ConfiguredWeeklyHours == load_settings(settings).weekly_hours * 100

\* C2: for every configured weeklyHours >= 0 the three hour targets shown are
\* 70%, 20% and 10% of weeklyHours and add up to weeklyHours; weeklyHours = 30
\* gives Networking 21, Planning 6 and Applying 3.
C2_HourTargets ==
    LET t == view.hour_targets
        w == ConfiguredWeeklyHours
    IN  /\ w >= 0
        /\ DOMAIN t = {"Networking", "Planning", "Applying"}
        /\ 100 * t["Networking"] = 70 * w
        /\ 100 * t["Planning"] = 20 * w
        /\ 100 * t["Applying"] = 10 * w
        /\ t["Networking"] + t["Planning"] + t["Applying"] = w
        /\ (w = 100 * Hours(30) =>
                /\ t["Networking"] = 100 * Hours(21)
                /\ t["Planning"] = 100 * Hours(6)
                /\ t["Applying"] = 100 * Hours(3))

\* 12.5 weekly hours have been saved: 8.75, 2.5 and 1.25 hours
C2_Witness ==
    /\ last_call.op = "save_settings"
    /\ ConfiguredWeeklyHours = 1250000
    /\ view.hour_targets["Networking"] = 875000
    /\ view.hour_targets["Planning"] = 250000
    /\ view.hour_targets["Applying"] = 125000

(***************************************************************************)
(* Dashboard                                                               *)
(***************************************************************************)
\* the rows of the selected week, as the dashboard of the last pass read them
WeekRows == view.dash.df_week

RECURSIVE SumOver(_, _, _)
SumOver(df, I, col) ==
    IF I = {} THEN 0
    ELSE LET i == CHOOSE x \in I : TRUE
         IN df[i][col] + SumOver(df, I \ {i}, col)

\* C3: for every set of activity rows of a week the category aggregation has
\* exactly the three categories Networking, Planning and Applying, each with
\* the sum of the hours of its rows and 0 when it has no rows, and the total
\* hours of the week are the sum of the three.
C3_CategoryAggregation ==
    LET hb == hours_by_category(WeekRows)
        Of(c) == {i \in DOMAIN WeekRows : WeekRows[i].category = c}
    IN  /\ DOMAIN hb = {"Networking", "Planning", "Applying"}
        /\ \A c \in DOMAIN hb :
              /\ ~hb[c].nan
              /\ hb[c].v = SumOver(WeekRows, Of(c), "hours")
              /\ (Of(c) = {} => hb[c].v = 0)
        /\ view.dash.shown =>
              /\ view.dash.hours_by_cat = hb
              /\ view.dash.total_hours =
                     hb["Networking"].v + hb["Planning"].v + hb["Applying"].v

\* two Planning rows (1.125 h and 0.25 h), one Networking row, no Applying row
C3_Witness ==
    /\ view.dash.shown
    /\ Len(WeekRows) = 3
    /\ view.dash.hours_by_cat["Planning"].v = 1375
    /\ view.dash.hours_by_cat["Networking"].v = 500
    /\ view.dash.hours_by_cat["Applying"].v = 0
    /\ view.dash.total_hours = 1875

\* C4: for every week each scoreboard entry (the nine counters and the total
\* hours, shown to two decimals) equals the sum of that field over all
\* activity-log rows of the week, whatever their category.
C4_Scoreboard ==
    view.dash.shown =>
        /\ \A c \in Range(CounterCols) :
              view.dash.kpis[c] = SumOver(WeekRows, DOMAIN WeekRows, c)
        /\ view.dash.kpis["hours"] = round2(SumOver(WeekRows, DOMAIN WeekRows, "hours"))

\* the rows of the week with the given ISO date
RowsOn(iso) == {i \in DOMAIN WeekRows : WeekRows[i].activity_date = iso}

\* C5: for every week and every configured targetActionsPerDay, daysWithActions
\* is the number of dates of the week with at least one activity row and
\* daysMeetingTarget the number of dates with at least targetActionsPerDay
\* rows; both are at most 7.
C5_DayCounts ==
    LET target == load_settings(settings).target_actions_per_day
        Week == view.week.start .. view.week.end
        by_day == actions_by_day(WeekRows)
        with_actions == Cardinality({d \in Week : RowsOn(isoformat(d)) # {}})
        meeting == Cardinality({d \in Week : Cardinality(RowsOn(isoformat(d))) >= target})
    IN  /\ target >= 1
        /\ Cardinality({d \in DOMAIN by_day : by_day[d] > 0}) = with_actions
        /\ days_meeting(by_day, target) = meeting
        /\ meeting <= with_actions
        /\ with_actions <= 7
        /\ view.dash.shown =>
              /\ view.dash.days_with_actions = with_actions
              /\ view.dash.days_meeting_5 = meeting

\* target 2, two rows on Monday and one on Thursday: 2 days with actions,
\* 1 day meeting the target
C5_Witness ==
    /\ load_settings(settings).target_actions_per_day = 2
    /\ Cardinality(RowsOn(<<2024, 2, 26>>)) = 2
    /\ Cardinality(RowsOn(<<2024, 2, 29>>)) = 1
    /\ view.dash.shown
    /\ view.dash.days_with_actions = 2
    /\ view.dash.days_meeting_5 = 1

ActiveTargets == {r \in targets : r.is_active = 1}

\* C6: for every selected week the dashboard shows, as its active-target
\* count, the number of target rows with is_active set, whichever activity
\* rows fall in the week, and as its delta that count minus 7.
C6_ActiveTargets ==
    targets # {} =>
        /\ view.dash.shown
        /\ view.dash.active_targets = Cardinality(ActiveTargets)
        /\ view.dash.active_delta = Cardinality(ActiveTargets) - 7

(***************************************************************************)
(* Activity log                                                            *)
(***************************************************************************)
\* C7: delete_activity(id) removes exactly the activity-log row with that id
\* and leaves every other activity row and every other table unchanged; with
\* no row of that id the store is unchanged, and no error is raised.
C7_DeleteActivity ==
    [][last_call'.op = "delete_activity" =>
          /\ activity_log' = {r \in activity_log : r.id # last_call'.id}
          /\ ((\A r \in activity_log : r.id # last_call'.id) =>
                  activity_log' = activity_log)
          /\ UNCHANGED <<settings, targets, networking_contacts, networking_interactions,
                         networking_scripts, sqlite_sequence>>
          /\ last_call'.raised = ""]_vars

\* an existing row has been deleted and another row is still there
C7_Witness ==
    /\ last_call.op = "delete_activity"
    /\ last_call.existed
    /\ activity_log # {}
    /\ \A r \in activity_log : r.id # last_call.id

(***************************************************************************)
(* Networking store                                                        *)
(***************************************************************************)
\* C8: deleting a contact removes every interaction whose contact_id is that
\* contact and no interaction of any other contact.
C8_ContactCascade ==
    [][last_call'.op = "delete_contact" =>
          /\ \A i \in networking_interactions :
                i \in networking_interactions' <=> i.contact_id # last_call'.id
          /\ networking_interactions' \subseteq networking_interactions]_vars

\* a contact with an interaction has been deleted, the interaction of the
\* other contact is still there
C8_Witness ==
    /\ last_call.op = "delete_contact"
    /\ last_call.cascaded
    /\ networking_interactions # {}
    /\ \A i \in networking_interactions : i.contact_id # last_call.id

(***************************************************************************)
(* CSV export and import                                                   *)
(***************************************************************************)
\* the fifteen tracked fields of a row
Tracked(r) == [c \in required_cols |-> r[c]]

\* the rows appended by the import of the last pass
Imported == {r \in activity_log : r.id > last_call.seq_before}

\* C9: exporting a week and importing the exported file appends one new row
\* per exported row, each identical to its original in the fifteen tracked
\* fields; only the ids differ.
C9_RoundTrip ==
    (last_call.op = "import" /\ uploaded.origin = "export") =>
        /\ Cardinality(Imported) = Len(uploaded.df)
        /\ \A t \in {Tracked(r) : r \in Imported} \cup
                    {Tracked(uploaded.df[i]) : i \in DOMAIN uploaded.df} :
              Cardinality({r \in Imported : Tracked(r) = t})
                  = Cardinality({i \in DOMAIN uploaded.df : Tracked(uploaded.df[i]) = t})

\* the required columns the header of the uploaded file lacks
MissingInHeader == required_cols \ Range(uploaded.csv.header)

Ascending(names) ==
    \A i, j \in DOMAIN names : i < j => StrRank(names[i]) < StrRank(names[j])

\* C10: a CSV file whose header lacks any of the fifteen required columns is
\* rejected as a whole: the error lists exactly the missing required columns
\* in sorted order (only hours missing: ['hours']) and no import of it takes
\* place; columns beyond the fifteen are ignored.
C10_MissingColumns ==
    /\ (uploaded # NoFile /\ MissingInHeader # {}) =>
          /\ view.import_msg.kind = "missing"
          /\ Range(view.import_msg.cols) = MissingInHeader
          /\ Ascending(view.import_msg.cols)
          /\ (MissingInHeader = {"hours"} => view.import_msg.cols = <<"hours">>)
          /\ last_call.op # "import"
    /\ (uploaded # NoFile /\ MissingInHeader = {}) =>
          view.import_msg.kind \in {"preview", "imported", "failed"}
    /\ \A r \in activity_log : DOMAIN r = Range(ActivityColumns)

\* a file with a column of its own and without title and category
C10_Witness ==
    /\ uploaded # NoFile
    /\ "source" \in Range(uploaded.csv.header)
    /\ view.import_msg.kind = "missing"
    /\ view.import_msg.cols = <<"category", "title">>

\* a file with all fifteen columns and one more has been imported
C10_ExtraIgnored ==
    /\ last_call.op = "import"
    /\ "source" \in Range(uploaded.csv.header)
    /\ last_call.raised = ""
    /\ Imported # {}

(***************************************************************************)
(* Required text fields                                                    *)
(***************************************************************************)
\* the texts of the model that are empty or only whitespace
Blank(s) == s \in {"", "  "}

\* C11: Add activity, Add target, Add contact and Save contact update are
\* refused exactly when the required text (title, target name, contact name)
\* is empty or only whitespace, and a refused operation leaves the store
\* unchanged.
C11_RequiredText ==
    [][/\ last_call'.op \in {"refused", "add_activity", "add_target", "add_contact",
                             "update_contact"} =>
              (last_call'.op = "refused" <=> Blank(last_call'.text))
       /\ last_call'.op = "refused" =>
              /\ last_call'.what \in {"add_activity", "add_target", "add_contact",
                                      "update_contact"}
              /\ UNCHANGED store]_vars

\* a contact update with a whitespace name was refused; the contact keeps
\* its name
C11_Witness ==
    /\ last_call.op = "refused"
    /\ last_call.what = "update_contact"
    /\ last_call.text = "  "
    /\ \E c \in networking_contacts : c.name = "Ann"

(***************************************************************************)
(* Settings                                                                *)
(***************************************************************************)
SettingsRow(weekly_hours, target_actions_per_day) ==
    [id |-> 1, weekly_hours |-> weekly_hours,
     target_actions_per_day |-> target_actions_per_day]

\* C12: the settings table always holds exactly one row, of id 1; it holds
\* the defaults (30, 5) until the first save and then both values of the most
\* recent save_settings; init_db, run again by every pass, never changes it.
C12_Settings ==
    /\ settings = {SettingsRow(Hours(30), 5)}
    /\ [](Cardinality(settings) = 1 /\ \A r \in settings : r.id = 1)
    /\ [][IF last_call'.op = "save_settings"
          THEN settings' = {SettingsRow(last_call'.weekly_hours,
                                        last_call'.target_actions_per_day)}
          ELSE settings' = settings]_vars

\* 12.5 hours and 2 actions were saved, and a later pass added an activity
C12_Witness ==
    /\ settings = {SettingsRow(12500, 2)}
    /\ last_call.op = "add_activity"

(***************************************************************************)
(* Activity log: titles                                                    *)
(***************************************************************************)
\* C13: after any sequence of passes (forms and imports) every activity-log
\* row has a non-empty title.
C13_TitleNotEmpty == \A r \in activity_log : r.title # ""

\* the import of a file stopped at the row with the empty title cell; the
\* row before it is in the log
C13_Witness ==
    /\ last_call.op = "import"
    /\ last_call.raised = "IntegrityError"
    /\ \E i \in DOMAIN uploaded.csv.rows : uploaded.csv.rows[i]["title"].k = "empty"
    /\ Imported # {}

(***************************************************************************)
(* Import (append)                                                         *)
(***************************************************************************)
\* C14: when a file with all fifteen columns is imported, every row of the
\* file is appended as a new activity-log row: the log grows by exactly the
\* number of rows of the file and no existing row changes.
C14_ImportAppendsAll ==
    [][last_call'.op = "import" =>
          /\ activity_log \subseteq activity_log'
          /\ Cardinality(activity_log') =
                 Cardinality(activity_log) + Len(uploaded.csv.rows)]_vars

(***************************************************************************)
(* Mutations per pass                                                      *)
(***************************************************************************)
\* the ids of the rows inserted, deleted or altered between two tables
ChangedIds(before, after) == {r.id : r \in (before \ after) \cup (after \ before)}

\* the number of rows a step writes, all tables together
MutatedRows ==
    Cardinality(ChangedIds(settings, settings'))
    + Cardinality(ChangedIds(targets, targets'))
    + Cardinality(ChangedIds(activity_log, activity_log'))
    + Cardinality(ChangedIds(networking_contacts, networking_contacts'))
    + Cardinality(ChangedIds(networking_interactions, networking_interactions'))
    + Cardinality(ChangedIds(networking_scripts, networking_scripts'))

\* C15 as stated: every pass of main applies at most one mutation to the
\* store.
C15_OneMutation == [][MutatedRows <= 1]_vars

\* C15 amended: every pass of main other than an Import (append) writes at
\* most one row of the store; an import writes one activity-log row per row
\* of the file, up to the first row that fails, and no other table.
C15_OneMutationButImport ==
    [][IF last_call'.op = "import"
       THEN /\ MutatedRows <= Len(uploaded.csv.rows)
            /\ MutatedRows = Cardinality(ChangedIds(activity_log, activity_log'))
       ELSE MutatedRows <= 1]_vars

\* an import has appended two rows in one pass
C15_Witness ==
    /\ last_call.op = "import"
    /\ Cardinality(Imported) = 2

(***************************************************************************)
(* Targets                                                                 *)
(***************************************************************************)
TargetIds(tbl) == {r.id : r \in tbl}

\* C16: no pass removes a target; update_target changes only stage, is_active
\* and notes of the target it addresses, and leaves that target's name,
\* company, role and created_at and every other target unchanged.
C16_TargetsKept ==
    [][/\ TargetIds(targets) \subseteq TargetIds(targets')
       /\ \A r \in targets, q \in targets' :
             r.id = q.id =>
                /\ q.name = r.name
                /\ q.company = r.company
                /\ q.role = r.role
                /\ q.created_at = r.created_at
                /\ (q # r => last_call'.op = "update_target" /\ last_call'.id = r.id)]_vars

\* of two targets added alike, the first was updated and the second is as
\* it was added
C16_Witness ==
    /\ last_call.op = "update_target"
    /\ last_call.id = 1
    /\ \E r, q \in targets :
          /\ r.id = 1 /\ r.stage = "Applied" /\ r.is_active = 0 /\ r.notes = "memo"
          /\ r.company = "Acme"
          /\ q.id = 2 /\ q.stage = "Prospecting" /\ q.is_active = 1 /\ q.notes = ""

\* C17: after any sequence of Add target and Save target update passes every
\* target's stage is one of Prospecting, Applied, Screen, Interview, Offer,
\* Closed.
C17_StageEnum ==
    \A r \in targets :
        r.stage \in {"Prospecting", "Applied", "Screen", "Interview", "Offer", "Closed"}

\* a target moved to Closed with a note, another still Prospecting
C17_Witness ==
    /\ \E r \in targets : r.stage = "Closed" /\ r.notes = "memo"
    /\ \E r \in targets : r.stage = "Prospecting"

(***************************************************************************)
(* Activity log: rows never change                                         *)
(***************************************************************************)
\* C18: activity-log rows are immutable: a row of an id present in two states
\* of a run is the same in both (a row is the same after every step, and the
\* id of a new row was never used before); the log changes only in an Add
\* activity, an import or a delete-by-id pass.
C18_ActivityImmutable ==
    /\ [](\A r \in activity_log : r.id <= sqlite_sequence.activity_log)
    /\ [][/\ \A r \in activity_log, q \in activity_log' : r.id = q.id => r = q
          /\ \A q \in activity_log' \ activity_log : q.id > sqlite_sequence.activity_log
          /\ sqlite_sequence'.activity_log >= sqlite_sequence.activity_log
          /\ activity_log' # activity_log =>
                last_call'.op \in {"add_activity", "import", "delete_activity"}]_vars

\* the second of three rows was deleted and a row added after that
C18_Witness ==
    /\ last_call.op = "add_activity"
    /\ {r.id : r \in activity_log} = {1, 3}

(***************************************************************************)
(* Networking: the contact of an interaction                               *)
(***************************************************************************)
\* every interaction's contact_id is the id of a contact
ContactsExist ==
    \A i \in networking_interactions :
        \E c \in networking_contacts : c.id = i.contact_id

\* what holds of add_interaction, and of the Add interaction pass
AddInteractionChecked ==
    /\ (last_call'.op = "call_add_interaction" /\ ~last_call'.contact_existed) =>
          (last_call'.raised = "IntegrityError" /\ UNCHANGED store)
    /\ last_call'.op = "add_interaction" => networking_contacts # {}

\* C19 as stated: every interaction's contact_id references an existing
\* contact; add_interaction and update_interaction with a contact_id that
\* matches no contact fail and leave the store unchanged; Add interaction is
\* not offered while there is no contact.
C19_ContactReference ==
    /\ []ContactsExist
    /\ [][/\ AddInteractionChecked
          /\ (last_call'.op = "call_update_interaction" /\ ~last_call'.contact_existed) =>
                (last_call'.raised = "IntegrityError" /\ UNCHANGED store)]_vars

\* C19 amended: as stated, where update_interaction fails when it addresses
\* an existing interaction; addressed to an id that matches no interaction
\* it raises nothing, whatever the contact_id, and the store is unchanged.
C19_ContactReferenceOfRows ==
    /\ []ContactsExist
    /\ [][/\ AddInteractionChecked
          /\ (last_call'.op = "call_update_interaction" /\ ~last_call'.contact_existed) =>
                /\ UNCHANGED store
                /\ last_call'.raised =
                       IF last_call'.existed THEN "IntegrityError" ELSE ""]_vars

\* update_interaction of an existing interaction to the id of a deleted
\* contact failed; the interaction still has its contact
C19_Witness ==
    /\ last_call.op = "call_update_interaction"
    /\ last_call.existed
    /\ ~last_call.contact_existed
    /\ last_call.raised = "IntegrityError"
    /\ \E i \in networking_interactions : i.id = last_call.id
    /\ Cardinality(networking_contacts) = 1
    /\ sqlite_sequence.networking_contacts = 2

(***************************************************************************)
(* Updates of a row that does not exist                                    *)
(***************************************************************************)
\* C20: update_target, update_contact and update_interaction called with an
\* id that matches no row leave the store unchanged and raise no error.
C20_UpdateUnknownId ==
    [][(/\ last_call'.op \in {"call_update_target", "call_update_contact",
                              "call_update_interaction"}
        /\ ~last_call'.existed) =>
           /\ UNCHANGED store
           /\ last_call'.raised = ""]_vars

\* update_interaction with the id of no interaction and the id of no contact,
\* while an interaction and a contact exist
C20_Witness ==
    /\ last_call.op = "call_update_interaction"
    /\ ~last_call.existed
    /\ ~last_call.contact_existed
    /\ last_call.raised = ""
    /\ networking_interactions # {}

(***************************************************************************)
(* Script templates                                                        *)
(***************************************************************************)
FiveTemplates ==
    {[id |-> 1, title |-> "Intro + 20-min ask", is_default |-> 1],
     [id |-> 2, title |-> "Referral ask", is_default |-> 1],
     [id |-> 3, title |-> "Event follow-up ask", is_default |-> 1],
     [id |-> 4, title |-> "Connection request (300 chars)", is_default |-> 1],
     [id |-> 5, title |-> "Thank you + recap", is_default |-> 1]}

\* C21: a run of init_db inserts the five templates when networking_scripts
\* is empty and inserts nothing when any row exists; so from an empty table,
\* after any number of runs, the table holds exactly the five templates.
C21_SeededOnce ==
    [][/\ networking_scripts = {} => networking_scripts' = FiveTemplates
       /\ networking_scripts # {} => networking_scripts' = networking_scripts
       /\ networking_scripts \in {{}, FiveTemplates} =>
             (networking_scripts' = FiveTemplates /\ Cardinality(networking_scripts') = 5)]_vars

\* init_db found the table empty and left the five templates
C21_Witness ==
    /\ last_call.op = "init_db"
    /\ last_call.existing = 0
    /\ networking_scripts = FiveTemplates

(***************************************************************************)
(* The rows of a week                                                      *)
(***************************************************************************)
\* the calendar date of a stored activity_date
DateOf(r) == ToOrdinal(r.activity_date)

\* C22: the week view's rows are exactly the activity-log rows whose activity
\* date d satisfies start <= d <= end for (start, end) = week_bounds(D), D the
\* day picked: the rows of the Monday-to-Sunday week containing D and no
\* others.  (The pass of an import renders the week before the rows are
\* appended.)
C22_WeekRows ==
    last_call.op # "import" =>
        /\ view.week = week_bounds(selected_day)
        /\ {WeekRows[i] : i \in DOMAIN WeekRows} =
               {r \in activity_log : view.week.start <= DateOf(r) /\ DateOf(r) <= view.week.end}

\* the same for the rows whose date is stored as YYYY-MM-DD
C22_WeekRowsIso ==
    last_call.op # "import" =>
        /\ view.week = week_bounds(selected_day)
        /\ {WeekRows[i] : i \in DOMAIN WeekRows} \cap {r \in activity_log : Len(r.activity_date) = 3} =
               {r \in activity_log : /\ Len(r.activity_date) = 3
                                     /\ view.week.start <= DateOf(r)
                                     /\ DateOf(r) <= view.week.end}

\* the week of 2024-02-26 shown with the rows of its Monday and its Thursday,
\* and a row of the next Monday left out
C22_Witness ==
    /\ selected_day = Week1Monday + 2
    /\ Len(WeekRows) = 2
    /\ \E r \in activity_log : DateOf(r) = Week1Monday + 7
    /\ {DateOf(WeekRows[i]) : i \in DOMAIN WeekRows} = {Week1Monday, Week1Monday + 3}

(***************************************************************************)
(* The order of the lists                                                  *)
(***************************************************************************)
\* every row of df comes before the rows after it
InOrder(df, Before(_, _)) ==
    \A i \in DOMAIN df : \A j \in DOMAIN df : i < j => Before(df[i], df[j])

\* df lists each row of tbl once
ListsRowsOf(df, tbl) ==
    /\ Len(df) = Cardinality(tbl)
    /\ {df[i].id : i \in DOMAIN df} = {r.id : r \in tbl}

\* C23: the list of targets is in the order of is_active descending, then
\* created_at descending; the list of contacts in the order of status
\* ascending, then created_at descending; the list of interactions, with or
\* without the filters, in the order of interaction_date descending, then id
\* descending.
C23_ListsOrdered ==
    LET ByActiveCreated(r, q) ==
            \/ r.is_active > q.is_active
            \/ r.is_active = q.is_active /\ r.created_at >= q.created_at
        ByStatusCreated(r, q) ==
            \/ StatusRank(r.status) < StatusRank(q.status)
            \/ r.status = q.status /\ r.created_at >= q.created_at
        ByDateId(r, q) ==
            \/ ToOrdinal(r.interaction_date) > ToOrdinal(q.interaction_date)
            \/ r.interaction_date = q.interaction_date /\ r.id > q.id
        all == get_interactions_df(networking_interactions, networking_contacts, <<>>, <<>>)
        week == get_interactions_df(networking_interactions, networking_contacts,
                                    <<view.week.start, view.week.end>>, <<1>>)
    IN  /\ InOrder(get_targets_df(targets), ByActiveCreated)
        /\ ListsRowsOf(get_targets_df(targets), targets)
        /\ InOrder(get_contacts_df(networking_contacts), ByStatusCreated)
        /\ ListsRowsOf(get_contacts_df(networking_contacts), networking_contacts)
        /\ InOrder(all, ByDateId)
        /\ ListsRowsOf(all, networking_interactions)
        /\ InOrder(week, ByDateId)

\* two contacts and two interactions.  The contact added second comes first,
\* though created at the earlier second: it was made Active.  The interaction
\* added first comes first: it is the later one.
C23_Witness ==
    LET c == get_contacts_df(networking_contacts)
        i == get_interactions_df(networking_interactions, networking_contacts, <<>>, <<>>)
    IN  /\ Len(c) = 2 /\ c[1].id = 2 /\ c[1].status = "Active" /\ c[2].status = "New"
        /\ c[1].created_at < c[2].created_at
        /\ Len(i) = 2 /\ i[1].id = 1
        /\ i[1].interaction_date = <<2024, 3, 5>> /\ i[2].interaction_date = <<2024, 2, 27>>

(***************************************************************************)
(* Follow-ups due                                                          *)
(***************************************************************************)
\* the interactions with a follow-up date on or before the day
DueBy(day) ==
    {i \in networking_interactions :
        /\ i.follow_up_date.t # "null"
        /\ ToOrdinal(i.follow_up_date.v) <= day}

\* C24: for every cutoff date the follow-ups-due list holds exactly the
\* interactions whose follow_up_date is not null and on or before the cutoff,
\* each once; an interaction whose follow_up_date is null (saved with "No
\* follow-up needed") is in the list of no cutoff.
C24_FollowUpsDue ==
    /\ last_call.op = "followups" =>
          /\ {last_call.df[k].id : k \in DOMAIN last_call.df} =
                 {i.id : i \in DueBy(last_call.cutoff)}
          /\ Len(last_call.df) = Cardinality(DueBy(last_call.cutoff))
    /\ \A day \in Cutoffs :
          LET df == get_followups_df(networking_interactions, networking_contacts, day)
          IN  \A i \in networking_interactions :
                 i.follow_up_date = Null => \A k \in DOMAIN df : df[k].id # i.id

\* two interactions, one due on 2024-03-01 and one saved with "No follow-up
\* needed": the list of the cutoff 2024-03-01 holds the first alone
C24_Witness ==
    /\ last_call.op = "followups"
    /\ last_call.cutoff = Week1Monday + 4
    /\ Len(last_call.df) = 1
    /\ last_call.df[1].follow_up_date = Text(<<2024, 3, 1>>)
    /\ Cardinality(networking_interactions) = 2
    /\ \E i \in networking_interactions : i.follow_up_date = Null

(***************************************************************************)
(* Activity log: ids                                                       *)
(***************************************************************************)
ActivityIds == {r.id : r \in activity_log}

\* C25: activity-log ids are never reused: over any sequence of add, import
\* and delete passes, an id that was in the log and is no more in it is never
\* in it again, so every new row has an id no row has or ever had; and a
\* delete removes no row but the one of the id given, so a delete by a stale
\* id removes no row created later.
C25_IdsNeverReused ==
    /\ \A n \in 1..MaxActivityId :
          [](n \in ActivityIds => [](n \notin ActivityIds => [](n \notin ActivityIds)))
    /\ [][/\ \A r \in activity_log, q \in activity_log' \ activity_log : q.id # r.id
          /\ last_call'.op = "delete_activity" =>
                activity_log' = {r \in activity_log : r.id # last_call'.id}]_vars

\* row 1 was added and deleted, rows 2 and 3 were imported, and a delete of
\* id 1 then removed nothing
C25_Witness ==
    /\ last_call.op = "delete_activity"
    /\ last_call.id = 1
    /\ ~last_call.existed
    /\ ActivityIds = {2, 3}

====
